---- MODULE Spec2Model ----
(***************************************************************************)
(* StoneAggregator (aggregation.py): the sliding-window contact model of   *)
(* a Stone, the World store, the Aggregator projections and the MQTT       *)
(* message handler MqttService.on_message.                                 *)
(*                                                                         *)
(* Specifications over one set of variables:                               *)
(*   SpecStone   - one Stone object under arbitrary sequences of           *)
(*                 Stone.update calls (the class taken alone);             *)
(*   Spec        - the service: on_message delivered one message at a time *)
(*                 (paho's network loop runs the callback to completion    *)
(*                 before it reads the next message);                      *)
(*   SpecThreads - on_message called from several threads at once, one     *)
(*                 call per thread, statement by statement around          *)
(*                 World.lock;                                             *)
(*   SpecThreadsFair - SpecThreads with every started call scheduled       *)
(*                 again and again.                                        *)
(***************************************************************************)
EXTENDS Integers, Sequences, FiniteSets, TLC

VARIABLES
    stones,             \* World.stones: mac => Stone
    descs,              \* World.descs: mac => <<name, color>>
    last_stone_update,  \* MqttService.last_stone_update
    include_contacts,   \* CONFIG['Aggregator']['StoneInfoIncludeContacts']
    message,            \* the message on_message was last called with
    outcome,            \* how that call ended: "ok", "decode_error", "raised"
    published,          \* what that call handed to client.publish, in order
    delivered,          \* how many messages on_message has been called with
    prior,              \* World and throttle state when that call began
    stone,              \* SpecStone: the Stone object under test
    call,               \* SpecStone: arguments of the last Stone.update call
    before,             \* SpecStone: the Stone as it was when that call began
    pc,                 \* SpecThreads: where each thread's on_message call stands
    lock,               \* SpecThreads: World.lock, the thread that holds it or Unlocked
    frame,              \* SpecThreads: the local variables of each thread's call
    sent,               \* SpecThreads: the calls of client.publish, in order
    worlds              \* SpecThreads: World after each completed update_stone / update_desc

vars == <<stones, descs, last_stone_update, include_contacts, message, outcome, published, delivered, prior, stone, call, before, pc, lock, frame, sent, worlds>>

threadVars == <<pc, lock, frame, sent, worlds>>

serviceVars == <<stones, descs, last_stone_update, include_contacts, message, outcome, published, delivered, prior>>

----------------------------------------------------------------------------
(* Bounds of the model *)

\* how many of the time points of TimePoints a report or an update may carry
NumTimes == 3

\* the longest contact list one Stone.update call carries (SpecStone)
MaxContacts == 2

\* how many messages the broker delivers in one run (Spec)
MaxMessages == 3

\* how many threads call on_message at once (SpecThreads)
NumThreads == 2

(* Program constants *)

\* Stone.update keeps contacts of the last 60 seconds
WINDOW == 60

\* CONFIG 'UpdateInterval', fallback
UPDATE_INTERVAL == 4

----------------------------------------------------------------------------
(* Value domains *)

\* Epoch seconds.  The points sit on both sides of the two boundaries of the
\* code: 4 seconds after 0 and 3 seconds apart (the publish throttle), 60 and
\* 63 seconds apart (the contact window).
TimePoints == <<4, 7, 67, 1, 64, 127>>

Times == {TimePoints[i] : i \in 1..NumTimes}

\* addresses of stones (the topic suffix)
Addrs == {"s1", "s2"}

BeaconId(uuid, major, minor) == [uuid |-> uuid, major |-> major, minor |-> minor]

SeqUpTo(S, n) == UNION {[1..k -> S] : k \in 0..n}

Range(f) == {f[i] : i \in DOMAIN f}

EmptyMap == [k \in {} |-> k]

----------------------------------------------------------------------------
(* class Contact, class Stone *)

Contact(timestamp, mac_address, b_address, rssi_min, rssi_max, rssi_avg, tx_rssi) ==
    [timestamp |-> timestamp, mac_address |-> mac_address, b_address |-> b_address,
     rssi_min |-> rssi_min, rssi_max |-> rssi_max, rssi_avg |-> rssi_avg, tx_rssi |-> tx_rssi]

Stone(mac_address, b_address, comment) ==
    [mac_address |-> mac_address, b_address |-> b_address, comment |-> comment,
     last_update |-> 0, contacts |-> <<>>]

AppendWithoutFilter(contacts, ct) == Append(contacts, ct)

\* self.contacts = list(filter(lambda x : x.mac_address != ct.mac_address, self.contacts))
\* self.contacts.append(ct)
ReplaceContact(contacts, ct) ==
    Append(SelectSeq(contacts, LAMBDA x : x.mac_address # ct.mac_address), ct)

\* for ct in recent_contacts: ...
RECURSIVE MergeContacts(_, _)
MergeContacts(contacts, recent_contacts) ==
    IF recent_contacts = <<>> THEN contacts
    ELSE MergeContacts(ReplaceContact(contacts, Head(recent_contacts)), Tail(recent_contacts))

EvictStrictlyOlder(contacts, timestamp) ==
    SelectSeq(contacts, LAMBDA c : c.timestamp > (timestamp - WINDOW))

EvictNothing(contacts, timestamp) == contacts

\* self.contacts = [c for c in self.contacts if c.timestamp >= (timestamp - 60)]
Evict(contacts, timestamp) ==
    SelectSeq(contacts, LAMBDA c : c.timestamp >= (timestamp - WINDOW))

StoneUpdateRejectOlder(self, timestamp, recent_contacts) ==
    IF timestamp < self.last_update THEN self
    ELSE [self EXCEPT !.last_update = timestamp,
                      !.contacts = MergeContacts(Evict(self.contacts, timestamp), recent_contacts)]

StoneUpdateExtend(self, timestamp, recent_contacts) ==
    [self EXCEPT !.last_update = timestamp,
                 !.contacts = Evict(self.contacts, timestamp) \o recent_contacts]

\* Stone.update
StoneUpdate(self, timestamp, recent_contacts) ==
    [self EXCEPT !.last_update = timestamp,
                 !.contacts = MergeContacts(Evict(self.contacts, timestamp), recent_contacts)]

----------------------------------------------------------------------------
(* The JSON documents on the wire *)

\* one element of a report's 'data' list, with and without the optional
\* uuid/major/minor of the observed beacon
EntryWithId(mac) ==
    [mac |-> mac, uuid |-> "u9", major |-> 9, minor |-> 90,
     min |-> -80, max |-> -60, avg |-> -70, remoteRssi |-> -59]

EntryWithoutId(mac) ==
    [mac |-> mac, min |-> -85, max |-> -65, avg |-> -75, remoteRssi |-> -58]

\* two reports of m1 that differ, one of m2
Entries == {EntryWithId("m1"), EntryWithoutId("m1"), EntryWithoutId("m2")}

Has(obj, key) == key \in DOMAIN obj

\* bid = BeaconId(ct['uuid'], ct['major'], ct['minor']) if (...) else BeaconId('', 0, 0)
\* Contact(timestamp, ct['mac'], bid, ct['min'], ct['max'], ct['avg'], ct['remoteRssi'])
ParseContact(timestamp, ct) ==
    LET bid == IF Has(ct, "uuid") /\ Has(ct, "major") /\ Has(ct, "minor")
               THEN BeaconId(ct.uuid, ct.major, ct.minor)
               ELSE BeaconId("", 0, 0)
    IN Contact(timestamp, ct.mac, bid, ct.min, ct.max, ct.avg, ct.remoteRssi)

\* contacts = list(); for ct in data['data']: contacts.append(...)
ParseContacts(timestamp, data) == [i \in DOMAIN data |-> ParseContact(timestamp, data[i])]

----------------------------------------------------------------------------
(* SpecStone: one Stone, any sequence of update calls.  Both call sites of   *)
(* Stone.update pass contacts stamped with the timestamp of the call.        *)

NoMessage == [topic |-> <<"", "">>, payload |-> [head |-> "none", inflates |-> FALSE, json |-> FALSE, value |-> <<>>]]

NoPrior == [stones |-> EmptyMap, descs |-> EmptyMap, last_stone_update |-> 0]

NoCall == [timestamp |-> 0, recent_contacts |-> <<>>, made |-> FALSE, repeated |-> FALSE]

\* the threads that call on_message, numbered in the order their messages arrive
Threads == 1..NumThreads

\* threading.Lock(), not acquired
Unlocked == 0

\* the locals of an on_message call that has not begun
NoFrame ==
    [message |-> NoMessage, stone |-> Stone("", BeaconId("", 0, 0), ""), timestamp |-> 0,
     agg_stones |-> EmptyMap, agg_graph |-> EmptyMap, agg_descs |-> EmptyMap, version |-> 0]

\* World as World.__init__ leaves it
World(stones_, descs_) == [stones |-> stones_, descs |-> descs_]

InitThreadsIdle ==
    /\ pc = [t \in Threads |-> "waiting"]
    /\ lock = Unlocked
    /\ frame = [t \in Threads |-> NoFrame]
    /\ sent = <<>>
    /\ worlds = <<World(EmptyMap, EmptyMap)>>

\* stone.update(timestamp, contacts), the contacts built as on_message builds them
UpdateCall(timestamp, data) ==
    LET recent_contacts == ParseContacts(timestamp, data) IN
    /\ before' = stone
    /\ call' = [timestamp |-> timestamp, recent_contacts |-> recent_contacts, made |-> TRUE,
                repeated |-> (call.made /\ call.timestamp = timestamp /\ call.recent_contacts = recent_contacts)]
    /\ stone' = StoneUpdate(stone, timestamp, recent_contacts)
    /\ UNCHANGED serviceVars
    /\ UNCHANGED threadVars

InitStoneIdle ==
    /\ stone = Stone("s1", BeaconId("u1", 1, 10), "c1")
    /\ call = NoCall
    /\ before = stone

InitStone ==
    /\ InitStoneIdle
    /\ stones = EmptyMap
    /\ descs = EmptyMap
    /\ last_stone_update = 0
    /\ include_contacts = TRUE
    /\ message = NoMessage
    /\ outcome = "ok"
    /\ published = <<>>
    /\ delivered = 0
    /\ prior = NoPrior
    /\ InitThreadsIdle

NextStone == \E timestamp \in Times, data \in SeqUpTo(Entries, MaxContacts) : UpdateCall(timestamp, data)

SpecStone == InitStone /\ [][NextStone]_vars

----------------------------------------------------------------------------
(* class World *)

PutAlone(map, key, value) == [k \in {key} |-> value]

Put(map, key, value) == [k \in DOMAIN map \cup {key} |-> IF k = key THEN value ELSE map[k]]

update_stone_rebrand(stones_, s) ==
    IF s.mac_address \notin DOMAIN stones_
    THEN Put(stones_, s.mac_address, s)
    ELSE Put(stones_, s.mac_address,
             [StoneUpdate(stones_[s.mac_address], s.last_update, s.contacts) EXCEPT
                 !.b_address = s.b_address, !.comment = s.comment])

update_stone_overwrite(stones_, s) == Put(stones_, s.mac_address, s)

\* World.update_stone
update_stone(stones_, s) ==
    IF s.mac_address \notin DOMAIN stones_
    THEN Put(stones_, s.mac_address, s)
    ELSE Put(stones_, s.mac_address, StoneUpdate(stones_[s.mac_address], s.last_update, s.contacts))

update_desc_only(descs_, mac_address, name, color) == [k \in {mac_address} |-> <<name, color>>]

\* World.update_desc
update_desc(descs_, mac_address, name, color) == Put(descs_, mac_address, <<name, color>>)

----------------------------------------------------------------------------
(* class Aggregator: the documents json.dumps serialises, key by key *)

StoneInfo(s) ==
    [uuid |-> s.b_address.uuid, major |-> s.b_address.major, minor |-> s.b_address.minor,
     comment |-> s.comment, last_seen |-> s.last_update]

StoneInfoContact(c) ==
    [mac |-> c.mac_address, uuid |-> c.b_address.uuid, major |-> c.b_address.major,
     minor |-> c.b_address.minor, rssi_avg |-> c.rssi_avg, rssi_tx |-> c.tx_rssi]

StoneInfoWithContacts(s) ==
    [uuid |-> s.b_address.uuid, major |-> s.b_address.major, minor |-> s.b_address.minor,
     comment |-> s.comment, last_seen |-> s.last_update,
     contacts |-> [i \in DOMAIN s.contacts |-> StoneInfoContact(s.contacts[i])]]

aggregate_stones_always_contacts(stones_) == [mac \in DOMAIN stones_ |-> StoneInfoWithContacts(stones_[mac])]

\* Aggregator.aggregate_stones
aggregate_stones(stones_) ==
    [mac \in DOMAIN stones_ |->
        IF include_contacts THEN StoneInfoWithContacts(stones_[mac]) ELSE StoneInfo(stones_[mac])]

GraphContact(c, current_time) ==
    [mac |-> c.mac_address, uuid |-> c.b_address.uuid, major |-> c.b_address.major,
     minor |-> c.b_address.minor, age |-> current_time - c.timestamp,
     rssi_avg |-> c.rssi_avg, rssi_tx |-> c.tx_rssi]

\* Aggregator.aggregate_graph
aggregate_graph(stones_, current_time) ==
    [mac \in DOMAIN stones_ |->
        [uuid |-> stones_[mac].b_address.uuid, major |-> stones_[mac].b_address.major,
         minor |-> stones_[mac].b_address.minor, comment |-> stones_[mac].comment,
         age |-> current_time - stones_[mac].last_update,
         contacts |-> [i \in DOMAIN stones_[mac].contacts |->
                          GraphContact(stones_[mac].contacts[i], current_time)]]]

\* Aggregator.aggregate_descs
aggregate_descs(descriptions) ==
    [mac \in DOMAIN descriptions |-> [name |-> descriptions[mac][1], color |-> descriptions[mac][2]]]

----------------------------------------------------------------------------
(* The messages the broker delivers *)

\* MqttService.__init__: the channel names (fallbacks)
channel_in_sensors_prefix == "JellingStone/"

channel_in_nameupdate == "NameUpdate"

channel_out_stones == "Aggregated/Stones"

channel_out_graph == "Aggregated/Graph"

channel_out_names == "Aggregated/Names"

\* A topic is the pair of its first level (with the slash) and the rest.
SensorTopic(mac) == <<channel_in_sensors_prefix, mac>>

NameTopic == <<channel_in_nameupdate, "">>

\* topic.startswith(self.channel_in_sensors_prefix)
StartsWith(topic, prefix) == topic[1] = prefix

\* A 'timestamp' string: whether it matches '%Y-%m-%dT%H:%M:%SZ', and the
\* epoch second int(time_dt.timestamp()) gives for it.
TimeString(t) == [wellformed |-> TRUE, epoch |-> t]

BadTimeString == [wellformed |-> FALSE, epoch |-> 0]

SensorBody(b, comment, t, data) ==
    [uuid |-> b.uuid, major |-> b.major, minor |-> b.minor, comment |-> comment,
     timestamp |-> TimeString(t), data |-> data]

NameBody(mac, name, color) == [mac |-> mac, name |-> name, color |-> color]

DropKey(obj, key) == [k \in DOMAIN obj \ {key} |-> obj[k]]

\* The bytes of a payload: how they begin ("789c", "other", or "none" for a
\* payload shorter than two bytes), whether zlib can inflate them, whether
\* the text is JSON, and the JSON value.
Plain(value) == [head |-> "other", inflates |-> FALSE, json |-> TRUE, value |-> value]

Zlib(value) == [head |-> "789c", inflates |-> TRUE, json |-> TRUE, value |-> value]

Malformed ==
    { [head |-> "none", inflates |-> FALSE, json |-> FALSE, value |-> <<>>],    \* empty payload
      [head |-> "789c", inflates |-> FALSE, json |-> TRUE, value |-> <<>>],     \* truncated zlib stream
      [head |-> "789c", inflates |-> TRUE, json |-> FALSE, value |-> <<>>],     \* zlib stream of truncated JSON
      [head |-> "other", inflates |-> FALSE, json |-> FALSE, value |-> <<>>] }  \* truncated JSON

\* the contact lists a report carries; the last one names m1 twice
ReportData ==
    { <<>>,
      <<EntryWithId("m1")>>,
      <<EntryWithId("m1"), EntryWithoutId("m2")>>,
      <<EntryWithoutId("m1"), EntryWithId("m1")>> }

SensorBodies ==
    {SensorBody(BeaconId("u1", 1, 10), "c1", t, d) : t \in Times, d \in ReportData}
        \cup {SensorBody(BeaconId("u2", 2, 20), "c2", t, <<>>) : t \in Times}

\* a stone compresses the reports that carry more than one contact
Wire(body) == IF Len(body.data) > 1 THEN Zlib(body) ELSE Plain(body)

Descriptions == {<<"n1", "red">>, <<"n2", "blue">>}

NameBodies == {NameBody(mac, d[1], d[2]) : mac \in Addrs, d \in Descriptions}

SensorKeys == {"uuid", "major", "minor", "comment", "timestamp", "data"}

ContactKeys == {"mac", "min", "max", "avg", "remoteRssi"}

NameKeys == {"mac", "name", "color"}

BaseSensorBody == SensorBody(BeaconId("u1", 1, 10), "c1", TimePoints[2], <<EntryWithId("m1")>>)

\* JSON that parses but lacks a field the handler reads, or carries a
\* timestamp strptime rejects
IncompleteSensorBodies ==
    {DropKey(BaseSensorBody, k) : k \in SensorKeys}
        \cup {[BaseSensorBody EXCEPT !.data = <<DropKey(EntryWithId("m1"), k)>>] : k \in ContactKeys}
        \cup {[BaseSensorBody EXCEPT !.timestamp = BadTimeString]}

IncompleteNameBodies == {DropKey(NameBody("s1", "n1", "red"), k) : k \in NameKeys}

Message(topic, payload) == [topic |-> topic, payload |-> payload]

Messages ==
    {Message(SensorTopic(a), Wire(b)) : a \in Addrs, b \in SensorBodies}
        \cup {Message(NameTopic, Plain(b)) : b \in NameBodies}
        \cup {Message(t, p) : t \in {SensorTopic("s1"), NameTopic}, p \in Malformed}
        \cup {Message(SensorTopic("s1"), Plain(b)) : b \in IncompleteSensorBodies}
        \cup {Message(NameTopic, Plain(b)) : b \in IncompleteNameBodies}

----------------------------------------------------------------------------
(* MqttService.on_message *)

\* lines 170-179: payload[0], payload[1], zlib.decompress, decode, json.loads
\* all sit in the try block; whichever raises, the handler prints and returns
Decodes(payload) ==
    /\ payload.head # "none"
    /\ payload.head = "789c" => payload.inflates
    /\ payload.json

\* lines 184-196: every subscript of data and of the entries of data['data'],
\* and strptime, outside any try block
ReportParses(data) ==
    /\ SensorKeys \subseteq DOMAIN data
    /\ data.timestamp.wellformed
    /\ \A i \in DOMAIN data.data : ContactKeys \subseteq DOMAIN data.data[i]

\* line 213: data['mac'], data['name'], data['color']
NameParses(data) == NameKeys \subseteq DOMAIN data

\* lines 183-197: the Stone object built from the report
ParseStone(mac_address, data) ==
    StoneUpdate(Stone(mac_address, BeaconId(data.uuid, data.major, data.minor), data.comment),
                data.timestamp.epoch,
                ParseContacts(data.timestamp.epoch, data.data))

\* MqttService.publish_persistent
publish_persistent(topic, payload) == [topic |-> topic, payload |-> payload, retain |-> TRUE]

DueStrictlyLater(timestamp, last) == (timestamp - last) > UPDATE_INTERVAL

\* line 203
Due(timestamp, last) == (timestamp - last) >= UPDATE_INTERVAL

\* on_message is entered with one message
Deliver(msg) ==
    /\ delivered < MaxMessages
    /\ delivered' = delivered + 1
    /\ message' = msg
    /\ prior' = [stones |-> stones, descs |-> descs, last_stone_update |-> last_stone_update]
    /\ UNCHANGED <<include_contacts, stone, call, before>>
    /\ UNCHANGED threadVars

DecodeErrorEscapes(msg) ==
    /\ Deliver(msg)
    /\ ~Decodes(msg.payload)
    /\ outcome' = "raised"
    /\ published' = <<>>
    /\ UNCHANGED <<stones, descs, last_stone_update>>

\* lines 170-179, the except branch
DecodeError(msg) ==
    /\ Deliver(msg)
    /\ ~Decodes(msg.payload)
    /\ outcome' = "decode_error"
    /\ published' = <<>>
    /\ UNCHANGED <<stones, descs, last_stone_update>>

SensorReportSnapshotFirst(msg) ==
    /\ Deliver(msg)
    /\ Decodes(msg.payload)
    /\ StartsWith(msg.topic, channel_in_sensors_prefix)
    /\ ReportParses(msg.payload.value)
    /\ LET s == ParseStone(msg.topic[2], msg.payload.value)
           timestamp == s.last_update
       IN /\ stones' = update_stone(stones, s)
          /\ IF Due(timestamp, last_stone_update)
             THEN /\ last_stone_update' = timestamp
                  /\ published' = <<publish_persistent(channel_out_stones, aggregate_stones(stones)),
                                    publish_persistent(channel_out_graph, aggregate_graph(stones, timestamp))>>
             ELSE /\ last_stone_update' = last_stone_update
                  /\ published' = <<>>
    /\ outcome' = "ok"
    /\ UNCHANGED descs

\* lines 181-209
SensorReport(msg) ==
    /\ Deliver(msg)
    /\ Decodes(msg.payload)
    /\ StartsWith(msg.topic, channel_in_sensors_prefix)
    /\ ReportParses(msg.payload.value)
    /\ LET s == ParseStone(msg.topic[2], msg.payload.value)
           timestamp == s.last_update
       IN /\ stones' = update_stone(stones, s)
          /\ IF Due(timestamp, last_stone_update)
             THEN /\ last_stone_update' = timestamp
                  /\ published' = <<publish_persistent(channel_out_stones, aggregate_stones(stones')),
                                    publish_persistent(channel_out_graph, aggregate_graph(stones', timestamp))>>
             ELSE /\ last_stone_update' = last_stone_update
                  /\ published' = <<>>
    /\ outcome' = "ok"
    /\ UNCHANGED descs

\* lines 211-218
NameUpdate(msg) ==
    /\ Deliver(msg)
    /\ Decodes(msg.payload)
    /\ ~StartsWith(msg.topic, channel_in_sensors_prefix)
    /\ msg.topic = NameTopic
    /\ NameParses(msg.payload.value)
    /\ descs' = update_desc(descs, msg.payload.value.mac, msg.payload.value.name, msg.payload.value.color)
    /\ published' = <<publish_persistent(channel_out_names, aggregate_descs(descs'))>>
    /\ outcome' = "ok"
    /\ UNCHANGED <<stones, last_stone_update>>

\* lines 184-196 and 213: a KeyError or ValueError no handler catches leaves
\* on_message before World is touched or anything is published
HandlerRaises(msg) ==
    /\ Deliver(msg)
    /\ Decodes(msg.payload)
    /\ \/ StartsWith(msg.topic, channel_in_sensors_prefix) /\ ~ReportParses(msg.payload.value)
       \/ ~StartsWith(msg.topic, channel_in_sensors_prefix) /\ msg.topic = NameTopic
             /\ ~NameParses(msg.payload.value)
    /\ outcome' = "raised"
    /\ published' = <<>>
    /\ UNCHANGED <<stones, descs, last_stone_update>>

\* MqttService.on_message
on_message(msg) ==
    \/ DecodeError(msg)
    \/ SensorReport(msg)
    \/ NameUpdate(msg)
    \/ HandlerRaises(msg)

\* World.__init__, MqttService.__init__, and the configuration Main reads
Init ==
    /\ stones = EmptyMap
    /\ descs = EmptyMap
    /\ last_stone_update = 0
    /\ include_contacts \in BOOLEAN
    /\ message = NoMessage
    /\ outcome = "ok"
    /\ published = <<>>
    /\ delivered = 0
    /\ prior = NoPrior
    /\ InitStoneIdle
    /\ InitThreadsIdle

Next == \E msg \in Messages : on_message(msg)

Spec == Init /\ [][Next]_vars

----------------------------------------------------------------------------
(* SpecThreads: on_message called from NumThreads threads at once, one call  *)
(* per thread.  A step is one statement of on_message; entering a 'with      *)
(* self.world.get_lock()' block is one step with the first statement of the  *)
(* block, leaving it one step with the last.                                 *)

\* the messages the threads are called with: three reports, three name
\* updates and a payload that does not decode
ThreadMessages ==
    { Message(SensorTopic("s1"), Plain(SensorBody(BeaconId("u1", 1, 10), "c1", TimePoints[1], <<EntryWithId("m1")>>))),
      Message(SensorTopic("s1"), Plain(SensorBody(BeaconId("u1", 1, 10), "c1", TimePoints[2], <<EntryWithoutId("m2")>>))),
      Message(SensorTopic("s2"), Plain(SensorBody(BeaconId("u2", 2, 20), "c2", TimePoints[1], <<>>))),
      Message(NameTopic, Plain(NameBody("s1", "n1", "red"))),
      Message(NameTopic, Plain(NameBody("s1", "n2", "blue"))),
      Message(NameTopic, Plain(NameBody("s2", "n1", "red"))),
      Message(NameTopic, [head |-> "789c", inflates |-> FALSE, json |-> TRUE, value |-> <<>>]) }

\* the states of a call inside a 'with self.world.get_lock()' block
Holding == {"update_stone_inserted", "update_stone_update", "update_desc_assigned", "aggregate_graph", "aggregate_descs_done"}

\* the states of a call that stands before a 'with self.world.get_lock()' block
Acquiring == {"update_stone", "update_desc", "aggregate_stones", "aggregate_descs"}

\* the states of a call that is about to call client.publish
Publishing == {"publish_stones", "publish_graph", "publish_names"}

acquire_anyway(lock_) == TRUE

\* threading.Lock.acquire proceeds when no thread holds the lock
acquire(lock_) == lock_ = Unlocked

release_never(t) == t

\* threading.Lock.release at the end of a with block
release(t) == Unlocked

Goto(t, label) == pc' = [pc EXCEPT ![t] = label]

\* what a call leaves alone: the configuration and the variables of the
\* other specifications
ThreadIdle == UNCHANGED <<include_contacts, message, outcome, published, delivered, prior, stone, call, before>>

\* client.publish(topic, payload, retain=True) called by thread t
Publish(t, topic, payload) ==
    sent' = Append(sent, [by |-> t, time |-> frame[t].timestamp, version |-> frame[t].version,
                          doc |-> publish_persistent(topic, payload)])

\* lines 166-197, 211: the call begins, decodes the payload, and on the
\* sensor topic builds the Stone; a payload that does not decode or parse
\* ends the call
Arrive(t, msg) ==
    /\ pc[t] = "waiting"
    /\ \A u \in Threads : u < t => pc[u] # "waiting"
    /\ LET sensor == Decodes(msg.payload) /\ StartsWith(msg.topic, channel_in_sensors_prefix)
                        /\ ReportParses(msg.payload.value)
           name == Decodes(msg.payload) /\ ~StartsWith(msg.topic, channel_in_sensors_prefix)
                        /\ msg.topic = NameTopic /\ NameParses(msg.payload.value)
       IN /\ frame' = [frame EXCEPT ![t] =
                 IF sensor
                 THEN [NoFrame EXCEPT !.message = msg,
                                      !.stone = ParseStone(msg.topic[2], msg.payload.value),
                                      !.timestamp = msg.payload.value.timestamp.epoch]
                 ELSE [NoFrame EXCEPT !.message = msg]]
          /\ Goto(t, IF sensor THEN "update_stone" ELSE IF name THEN "update_desc" ELSE "returned")
    /\ UNCHANGED <<stones, descs, last_stone_update, lock, sent, worlds>>
    /\ ThreadIdle

\* lines 86-88 and, through line 90, line 59: the lock is taken and the
\* stone is inserted, or the held stone's last_update is assigned
UpsertEnter(t) ==
    /\ pc[t] = "update_stone"
    /\ acquire(lock)
    /\ lock' = t
    /\ LET s == frame[t].stone IN
       IF s.mac_address \notin DOMAIN stones
       THEN /\ stones' = Put(stones, s.mac_address, s)
            /\ Goto(t, "update_stone_inserted")
       ELSE /\ stones' = [stones EXCEPT ![s.mac_address].last_update = s.last_update]
            /\ Goto(t, "update_stone_update")
    /\ UNCHANGED <<descs, last_stone_update, frame, sent, worlds>>
    /\ ThreadIdle

\* lines 62-67 for a held stone, then the end of the with block of line 86
UpsertLeave(t) ==
    /\ pc[t] \in {"update_stone_inserted", "update_stone_update"}
    /\ LET s == frame[t].stone IN
       stones' = IF pc[t] = "update_stone_update"
                 THEN [stones EXCEPT ![s.mac_address].contacts =
                          MergeContacts(Evict(stones[s.mac_address].contacts, s.last_update), s.contacts)]
                 ELSE stones
    /\ lock' = release(t)
    /\ worlds' = Append(worlds, World(stones', descs))
    /\ Goto(t, "throttle")
    /\ UNCHANGED <<descs, last_stone_update, frame, sent>>
    /\ ThreadIdle

\* line 203: the test reads last_stone_update
ThrottleTest(t) ==
    /\ pc[t] = "throttle"
    /\ Goto(t, IF Due(frame[t].timestamp, last_stone_update) THEN "advance" ELSE "returned")
    /\ UNCHANGED <<stones, descs, last_stone_update, lock, frame, sent, worlds>>
    /\ ThreadIdle

\* line 204
ThrottleAdvance(t) ==
    /\ pc[t] = "advance"
    /\ last_stone_update' = frame[t].timestamp
    /\ Goto(t, "aggregate_stones")
    /\ UNCHANGED <<stones, descs, lock, frame, sent, worlds>>
    /\ ThreadIdle

AggregateEnterUnlocked(t) ==
    /\ pc[t] = "aggregate_stones"
    /\ frame' = [frame EXCEPT ![t].agg_stones = aggregate_stones(stones), ![t].version = Len(worlds)]
    /\ Goto(t, "aggregate_graph")
    /\ UNCHANGED <<stones, descs, last_stone_update, lock, sent, worlds>>
    /\ ThreadIdle

\* lines 205-206: the lock is taken and the Stones document built
AggregateEnter(t) ==
    /\ pc[t] = "aggregate_stones"
    /\ acquire(lock)
    /\ lock' = t
    /\ frame' = [frame EXCEPT ![t].agg_stones = aggregate_stones(stones), ![t].version = Len(worlds)]
    /\ Goto(t, "aggregate_graph")
    /\ UNCHANGED <<stones, descs, last_stone_update, sent, worlds>>
    /\ ThreadIdle

\* line 207: the Graph document is built, then the with block ends
AggregateLeave(t) ==
    /\ pc[t] = "aggregate_graph"
    /\ frame' = [frame EXCEPT ![t].agg_graph = aggregate_graph(stones, frame[t].timestamp)]
    /\ lock' = release(t)
    /\ Goto(t, "publish_stones")
    /\ UNCHANGED <<stones, descs, last_stone_update, sent, worlds>>
    /\ ThreadIdle

\* line 208
PublishStones(t) ==
    /\ pc[t] = "publish_stones"
    /\ Publish(t, channel_out_stones, frame[t].agg_stones)
    /\ Goto(t, "publish_graph")
    /\ UNCHANGED <<stones, descs, last_stone_update, lock, frame, worlds>>
    /\ ThreadIdle

\* line 209
PublishGraph(t) ==
    /\ pc[t] = "publish_graph"
    /\ Publish(t, channel_out_graph, frame[t].agg_graph)
    /\ Goto(t, "returned")
    /\ UNCHANGED <<stones, descs, last_stone_update, lock, frame, worlds>>
    /\ ThreadIdle

\* lines 93-94, called from line 213: the lock is taken and the description
\* assigned
DescEnter(t) ==
    /\ pc[t] = "update_desc"
    /\ acquire(lock)
    /\ lock' = t
    /\ LET v == frame[t].message.payload.value IN descs' = update_desc(descs, v.mac, v.name, v.color)
    /\ Goto(t, "update_desc_assigned")
    /\ UNCHANGED <<stones, last_stone_update, frame, sent, worlds>>
    /\ ThreadIdle

\* the with block of line 93 ends
DescLeave(t) ==
    /\ pc[t] = "update_desc_assigned"
    /\ lock' = release(t)
    /\ worlds' = Append(worlds, World(stones, descs))
    /\ Goto(t, "aggregate_descs")
    /\ UNCHANGED <<stones, descs, last_stone_update, frame, sent>>
    /\ ThreadIdle

\* lines 216-217: the lock is taken and the Names document built
NamesEnter(t) ==
    /\ pc[t] = "aggregate_descs"
    /\ acquire(lock)
    /\ lock' = t
    /\ frame' = [frame EXCEPT ![t].agg_descs = aggregate_descs(descs), ![t].version = Len(worlds)]
    /\ Goto(t, "aggregate_descs_done")
    /\ UNCHANGED <<stones, descs, last_stone_update, sent, worlds>>
    /\ ThreadIdle

NamesLeaveHolding(t) ==
    /\ pc[t] = "aggregate_descs_done"
    /\ Goto(t, "publish_names")
    /\ UNCHANGED <<stones, descs, last_stone_update, lock, frame, sent, worlds>>
    /\ ThreadIdle

\* the with block of line 216 ends
NamesLeave(t) ==
    /\ pc[t] = "aggregate_descs_done"
    /\ lock' = release(t)
    /\ Goto(t, "publish_names")
    /\ UNCHANGED <<stones, descs, last_stone_update, frame, sent, worlds>>
    /\ ThreadIdle

\* line 218
PublishNames(t) ==
    /\ pc[t] = "publish_names"
    /\ Publish(t, channel_out_names, frame[t].agg_descs)
    /\ Goto(t, "returned")
    /\ UNCHANGED <<stones, descs, last_stone_update, lock, frame, worlds>>
    /\ ThreadIdle

\* one statement of the call thread t has begun
Step(t) ==
    \/ UpsertEnter(t)
    \/ UpsertLeave(t)
    \/ ThrottleTest(t)
    \/ ThrottleAdvance(t)
    \/ AggregateEnter(t)
    \/ AggregateLeave(t)
    \/ PublishStones(t)
    \/ PublishGraph(t)
    \/ DescEnter(t)
    \/ DescLeave(t)
    \/ NamesEnter(t)
    \/ NamesLeave(t)
    \/ PublishNames(t)

InitThreads ==
    /\ stones = EmptyMap
    /\ descs = EmptyMap
    /\ last_stone_update = 0
    /\ include_contacts \in BOOLEAN
    /\ message = NoMessage
    /\ outcome = "ok"
    /\ published = <<>>
    /\ delivered = 0
    /\ prior = NoPrior
    /\ InitStoneIdle
    /\ InitThreadsIdle

NextThreads ==
    \/ \E t \in Threads, msg \in ThreadMessages : Arrive(t, msg)
    \/ \E t \in Threads : Step(t)

SpecThreads == InitThreads /\ [][NextThreads]_vars

\* contacts included, the fallback of line 104
InitThreadsFair == InitThreads /\ include_contacts

\* the interpreter keeps switching to every thread that can run
SpecThreadsFair == InitThreadsFair /\ [][NextThreads]_vars /\ \A t \in Threads : WF_vars(Step(t))

----------------------------------------------------------------------------
(* Properties of Stone.update, under SpecStone *)

MacsOf(contacts) == {contacts[i].mac_address : i \in DOMAIN contacts}

\* C1: after every Stone.update call no two contacts of the stone share a
\* mac_address (sourceAddress).
C1_NoTwoContactsShareSource ==
    \A i, j \in DOMAIN stone.contacts :
        i # j => stone.contacts[i].mac_address # stone.contacts[j].mac_address

\* the call carried the same address twice, and the stone already held it
C1_Witness ==
    /\ call.made
    /\ \E i, j \in DOMAIN call.recent_contacts :
          /\ i # j
          /\ call.recent_contacts[i].mac_address = call.recent_contacts[j].mac_address
          /\ call.recent_contacts[i] # call.recent_contacts[j]
          /\ call.recent_contacts[i].mac_address \in MacsOf(before.contacts)
    /\ Len(stone.contacts) = 2

\* C2: after every Stone.update call every contact the stone holds has
\* timestamp >= last_update - 60.
C2_ContactsWithinWindow ==
    \A i \in DOMAIN stone.contacts : stone.contacts[i].timestamp >= stone.last_update - 60

\* the call evicted a contact and kept one that sits exactly on the boundary
C2_Witness ==
    /\ call.made
    /\ \E i \in DOMAIN before.contacts : before.contacts[i].timestamp < call.timestamp - 60
    /\ \E i \in DOMAIN stone.contacts : stone.contacts[i].timestamp = stone.last_update - 60

\* a stone that holds a contact of m1 from second t1 and one of m2 from t2
HeldAt(t1, t2) ==
    [Stone("s1", BeaconId("u1", 1, 10), "c1") EXCEPT
        !.contacts = <<ParseContact(t1, EntryWithId("m1")), ParseContact(t2, EntryWithoutId("m2"))>>]

\* C3: an update with timestamp T evicts every previously held contact with
\* timestamp < T - 60 and retains every previously held contact with
\* timestamp >= T - 60 whose mac_address no incoming contact carries; an
\* update at t=61 evicts a contact from t=0 and keeps one from t=30.
C3_EvictsOlderKeepsRest ==
    /\ call.made =>
          \A i \in DOMAIN before.contacts :
              LET c == before.contacts[i] IN
              /\ c.timestamp < call.timestamp - 60 => c \notin Range(stone.contacts)
              /\ (c.timestamp >= call.timestamp - 60 /\ c.mac_address \notin MacsOf(call.recent_contacts))
                     => c \in Range(stone.contacts)
    /\ StoneUpdate(HeldAt(0, 30), 61, <<>>).contacts = <<ParseContact(30, EntryWithoutId("m2"))>>

\* one call evicted a contact and, of another address, kept the contact that
\* was exactly 60 seconds old
C3_Witness ==
    /\ call.made
    /\ \E i, j \in DOMAIN before.contacts :
          /\ before.contacts[i].timestamp < call.timestamp - 60
          /\ before.contacts[i].mac_address \notin MacsOf(stone.contacts)
          /\ before.contacts[j].timestamp = call.timestamp - 60
          /\ before.contacts[j] \in Range(stone.contacts)

\* C5: applying the same contact snapshot with the same timestamp twice in a
\* row leaves the stone (contacts and last_update) as the first application
\* left it.
C5_UpdateIdempotent == (call.made /\ call.repeated) => stone = before

\* the snapshot applied twice carried one address twice and replaced a held
\* contact of a third kind
C5_Witness ==
    /\ call.made
    /\ call.repeated
    /\ Len(call.recent_contacts) = 2
    /\ call.recent_contacts[1].mac_address = call.recent_contacts[2].mac_address
    /\ call.recent_contacts[1] # call.recent_contacts[2]
    /\ Len(stone.contacts) = 2

\* the call carried a timestamp older than the stone's last_update
OutOfOrder == call.made /\ call.timestamp < before.last_update

\* C15: Stone.update with a timestamp T older than the stone's last_update is
\* accepted: last_update becomes T (so last_update decreases), only held
\* contacts older than T - 60 or of an incoming address leave the stone, and
\* held contacts newer than T of other addresses stay.
C15_OutOfOrderUpdateAccepted ==
    OutOfOrder =>
        /\ stone.last_update = call.timestamp
        /\ stone.last_update < before.last_update
        /\ \A i \in DOMAIN before.contacts :
              LET c == before.contacts[i] IN
              /\ (c.timestamp > call.timestamp /\ c.mac_address \notin MacsOf(call.recent_contacts))
                     => c \in Range(stone.contacts)
              /\ c \notin Range(stone.contacts)
                     => (c.timestamp < call.timestamp - 60 \/ c.mac_address \in MacsOf(call.recent_contacts))

\* an older update moved last_update back and the stone still holds a contact
\* newer than its last_update, next to the contact the update carried
C15_Witness ==
    /\ OutOfOrder
    /\ stone.last_update < before.last_update
    /\ call.recent_contacts # <<>>
    /\ \E i \in DOMAIN stone.contacts :
          /\ stone.contacts[i].timestamp > stone.last_update
          /\ stone.contacts[i] \in Range(before.contacts)

----------------------------------------------------------------------------
(* Properties of the service, under Spec *)

\* the last call was a sensor report that on_message handled to the end
ReportHandled ==
    /\ delivered > 0
    /\ outcome = "ok"
    /\ message.topic[1] = channel_in_sensors_prefix

\* the last call was a name update that on_message handled to the end
NameUpdateHandled ==
    /\ delivered > 0
    /\ outcome = "ok"
    /\ message.topic = NameTopic

ReportAddress == message.topic[2]

ReportTime == message.payload.value.timestamp.epoch

PublishedOn(topic) == {i \in DOMAIN published : published[i].topic = topic}

\* C4: update_stone(stone) inserts the snapshot verbatim when World holds no
\* stone of that address; otherwise the held stone ends with the snapshot's
\* last_update and with its own in-window contacts of addresses the snapshot
\* does not carry, followed by the snapshot's contacts.
C4_UpsertStone ==
    ReportHandled =>
        LET snapshot == ParseStone(ReportAddress, message.payload.value)
            carried == MacsOf(snapshot.contacts)
            KeptFromBefore(c) ==
                c.timestamp >= snapshot.last_update - 60 /\ c.mac_address \notin carried
        IN /\ DOMAIN stones = DOMAIN prior.stones \cup {ReportAddress}
           /\ IF ReportAddress \notin DOMAIN prior.stones
              THEN stones[ReportAddress] = snapshot
              ELSE /\ stones[ReportAddress].last_update = snapshot.last_update
                   /\ stones[ReportAddress].contacts =
                          SelectSeq(prior.stones[ReportAddress].contacts, KeptFromBefore)
                              \o snapshot.contacts

\* a report with one contact met a stone that held two: one of them was
\* evicted or replaced, the other kept in front of the incoming contact
C4_Witness ==
    /\ ReportHandled
    /\ ReportAddress \in DOMAIN prior.stones
    /\ Len(prior.stones[ReportAddress].contacts) = 2
    /\ Len(message.payload.value.data) = 1
    /\ Len(stones[ReportAddress].contacts) = 2
    /\ stones[ReportAddress].contacts[1] \in Range(prior.stones[ReportAddress].contacts)
    /\ stones[ReportAddress].contacts[1].timestamp # ReportTime
    /\ stones[ReportAddress].contacts[2].timestamp = ReportTime

\* what C6 says of one handled report: the report is merged, and the pair of
\* documents is published, retained, and last_stone_update advanced exactly
\* when the report's time is UPDATE_INTERVAL or more past last_stone_update
ThrottleRule ==
    ReportHandled =>
        /\ ReportAddress \in DOMAIN stones
        /\ stones[ReportAddress].last_update = ReportTime
        /\ {e.mac : e \in Range(message.payload.value.data)} \subseteq MacsOf(stones[ReportAddress].contacts)
        /\ IF ReportTime - prior.last_stone_update >= 4
           THEN /\ Len(published) = 2
                /\ published[1].topic = "Aggregated/Stones" /\ published[1].retain
                /\ published[2].topic = "Aggregated/Graph" /\ published[2].retain
                /\ last_stone_update = ReportTime
           ELSE /\ published = <<>>
                /\ last_stone_update = prior.last_stone_update

\* two reports of one stone handled one after the other, the second
\* UPDATE_INTERVAL - 1 seconds after the first
TwoReportsApart ==
    /\ ReportHandled
    /\ ReportHandled'
    /\ ReportAddress' = ReportAddress
    /\ ReportTime' - ReportTime = 4 - 1

PublishCount == IF PublishedOn("Aggregated/Stones") # {} THEN 1 ELSE 0

\* C6 as stated: the throttle rule, and two reports of one stone that arrive
\* UPDATE_INTERVAL - 1 seconds apart trigger exactly one publish.
C6_ExactlyOnePublish ==
    [][ThrottleRule' /\ (TwoReportsApart => PublishCount + PublishCount' = 1)]_vars

\* C6 as amended: the throttle rule, and two such reports trigger at most one
\* publish.
C6_AtMostOnePublish ==
    [][ThrottleRule' /\ (TwoReportsApart => PublishCount + PublishCount' <= 1)]_vars

\* the first of two reports 3 seconds apart was published and the second,
\* merged into the stone, was not
C6_Witness ==
    /\ ReportHandled
    /\ ReportAddress \in DOMAIN prior.stones
    /\ prior.stones[ReportAddress].last_update = ReportTime - 3
    /\ prior.last_stone_update = ReportTime - 3
    /\ stones[ReportAddress].last_update = ReportTime
    /\ published = <<>>
    /\ last_stone_update = ReportTime - 3

MalformedPayload ==
    \/ message.payload.head = "none"
    \/ message.payload.head = "789c" /\ ~message.payload.inflates
    \/ ~message.payload.json

WorldUntouched ==
    /\ stones = prior.stones
    /\ descs = prior.descs
    /\ last_stone_update = prior.last_stone_update
    /\ published = <<>>

\* C7: a payload that zlib cannot inflate or that is not JSON, on either
\* topic, is dropped: World and last_stone_update keep their values, nothing
\* is published, and on_message returns after reporting the decode error.
C7_MalformedPayloadDropped ==
    (delivered > 0 /\ MalformedPayload) => (WorldUntouched /\ outcome = "decode_error")

\* a truncated zlib stream arrived when World held a stone and a description
C7_Witness ==
    /\ delivered > 0
    /\ message.payload.head = "789c"
    /\ ~message.payload.inflates
    /\ outcome = "decode_error"
    /\ prior.stones # EmptyMap
    /\ prior.descs # EmptyMap
    /\ stones = prior.stones

\* the payload is JSON that lacks a field its topic requires
MissingField ==
    /\ ~MalformedPayload
    /\ LET v == message.payload.value IN
       \/ /\ message.topic[1] = channel_in_sensors_prefix
          /\ \/ \E k \in SensorKeys : k \notin DOMAIN v
             \/ "data" \in DOMAIN v /\ \E i \in DOMAIN v.data : \E k \in ContactKeys : k \notin DOMAIN v.data[i]
       \/ /\ message.topic = NameTopic
          /\ \E k \in NameKeys : k \notin DOMAIN v

\* C8: JSON that lacks a required field is handled as a decode error: the
\* message is dropped, World is not changed, nothing is published, and no
\* error leaves on_message.
C8_MissingFieldIsDecodeError ==
    (delivered > 0 /\ MissingField) => (WorldUntouched /\ outcome = "decode_error")

\* C9: a name update overwrites descs[mac] with (name, color), leaves every
\* other description as it was, and always publishes one retained
\* Aggregated/Names document that maps mac to the new pair and every other
\* address of descs to its stored pair.
C9_NameUpdate ==
    NameUpdateHandled =>
        LET v == message.payload.value IN
        /\ DOMAIN descs = DOMAIN prior.descs \cup {v.mac}
        /\ descs[v.mac] = <<v.name, v.color>>
        /\ \A k \in DOMAIN prior.descs : k # v.mac => descs[k] = prior.descs[k]
        /\ Len(published) = 1
        /\ published[1].topic = "Aggregated/Names"
        /\ published[1].retain
        /\ DOMAIN published[1].payload = DOMAIN descs
        /\ published[1].payload[v.mac] = [name |-> v.name, color |-> v.color]
        /\ \A k \in DOMAIN prior.descs :
               k # v.mac => published[1].payload[k] = [name |-> prior.descs[k][1], color |-> prior.descs[k][2]]

\* a name update replaced the description of one address while another
\* address had one
C9_Witness ==
    /\ NameUpdateHandled
    /\ message.payload.value.mac \in DOMAIN prior.descs
    /\ prior.descs[message.payload.value.mac] # descs[message.payload.value.mac]
    /\ Cardinality(DOMAIN prior.descs) = 2

\* C10: every published Aggregated/Stones and Aggregated/Graph document has
\* exactly the addresses of World.stones as keys; the Stones document has no
\* 'contacts' key when StoneInfoIncludeContacts is off, and one entry per held
\* contact when it is on.
C10_DocumentsMatchWorld ==
    \A i \in DOMAIN published :
        LET doc == published[i].payload IN
        /\ published[i].topic \in {"Aggregated/Stones", "Aggregated/Graph"}
              => DOMAIN doc = DOMAIN stones
        /\ published[i].topic = "Aggregated/Stones" =>
              \A a \in DOMAIN stones :
                  IF include_contacts
                  THEN /\ "contacts" \in DOMAIN doc[a]
                       /\ Len(doc[a].contacts) = Len(stones[a].contacts)
                       /\ \A j \in DOMAIN stones[a].contacts :
                              doc[a].contacts[j].mac = stones[a].contacts[j].mac_address
                  ELSE "contacts" \notin DOMAIN doc[a]

\* the documents of two stones, one of them holding two contacts, were
\* published with StoneInfoIncludeContacts off
C10_Witness ==
    /\ PublishedOn("Aggregated/Stones") # {}
    /\ PublishedOn("Aggregated/Graph") # {}
    /\ ~include_contacts
    /\ Cardinality(DOMAIN stones) = 2
    /\ \E a \in DOMAIN stones : Len(stones[a].contacts) = 2

\* C17: an address held in World.stones stays held, and the stone stored for
\* it keeps its mac_address, b_address and comment whatever a later report of
\* that address carries; a report changes only last_update and contacts.
C17_StoneIdentityKept ==
    delivered > 0 =>
        \A a \in DOMAIN prior.stones :
            /\ a \in DOMAIN stones
            /\ stones[a].mac_address = a
            /\ stones[a].b_address = prior.stones[a].b_address
            /\ stones[a].comment = prior.stones[a].comment

\* a report that carried another uuid and comment than the stored stone was
\* merged into it
C17_Witness ==
    /\ ReportHandled
    /\ ReportAddress \in DOMAIN prior.stones
    /\ message.payload.value.uuid # prior.stones[ReportAddress].b_address.uuid
    /\ message.payload.value.comment # prior.stones[ReportAddress].comment
    /\ stones[ReportAddress].last_update # prior.stones[ReportAddress].last_update

\* C18: the documents are built after the merge: whenever a report triggers
\* a publish, the Stones document holds the reporting stone with last_seen
\* equal to the report's timestamp, and the Graph document holds it with age
\* 0 and with age 0 for every contact the report carried.
C18_SnapshotAfterMerge ==
    (ReportHandled /\ published # <<>>) =>
        LET carried == {e.mac : e \in Range(message.payload.value.data)} IN
        /\ PublishedOn("Aggregated/Stones") # {}
        /\ PublishedOn("Aggregated/Graph") # {}
        /\ \A i \in PublishedOn("Aggregated/Stones") :
              /\ ReportAddress \in DOMAIN published[i].payload
              /\ published[i].payload[ReportAddress].last_seen = ReportTime
        /\ \A i \in PublishedOn("Aggregated/Graph") :
              /\ ReportAddress \in DOMAIN published[i].payload
              /\ published[i].payload[ReportAddress].age = 0
              /\ \A m \in carried :
                     \E j \in DOMAIN published[i].payload[ReportAddress].contacts :
                         /\ published[i].payload[ReportAddress].contacts[j].mac = m
                         /\ published[i].payload[ReportAddress].contacts[j].age = 0

\* a report with a contact triggered a publish for a stone World already
\* held with an older last_update and an older contact of another address
C18_Witness ==
    /\ ReportHandled
    /\ Len(published) = 2
    /\ ReportAddress \in DOMAIN prior.stones
    /\ prior.stones[ReportAddress].last_update < ReportTime
    /\ message.payload.value.data # <<>>
    /\ \E j \in DOMAIN published[2].payload[ReportAddress].contacts :
          published[2].payload[ReportAddress].contacts[j].age > 0

\* C20: a name update leaves World.stones and last_stone_update as they were
\* and publishes on Aggregated/Names only; a sensor report leaves World.descs
\* as it was, changes no stone but the one its topic names, and publishes
\* nothing on Aggregated/Names.
C20_HandlerFrames ==
    /\ NameUpdateHandled =>
          /\ stones = prior.stones
          /\ last_stone_update = prior.last_stone_update
          /\ \A i \in DOMAIN published : published[i].topic = "Aggregated/Names"
    /\ ReportHandled =>
          /\ descs = prior.descs
          /\ DOMAIN stones = DOMAIN prior.stones \cup {ReportAddress}
          /\ \A a \in DOMAIN prior.stones : a # ReportAddress => stones[a] = prior.stones[a]
          /\ PublishedOn("Aggregated/Names") = {}

\* a report of one stone was merged and published while World held another
\* stone and a description
C20_Witness ==
    /\ ReportHandled
    /\ published # <<>>
    /\ prior.descs # EmptyMap
    /\ DOMAIN prior.stones = Addrs \ {ReportAddress}
    /\ stones[ReportAddress].contacts # <<>>

----------------------------------------------------------------------------
(* Properties of concurrent on_message calls, under SpecThreads *)

SentOn(topic) ==
    {i \in DOMAIN sent : sent[i].doc.topic = topic}

\* the document is the projection of World as one completed update left it
ProjectionOfWholeWorld(e) ==
    \E v \in DOMAIN worlds :
        e.doc.payload =
            CASE e.doc.topic = "Aggregated/Stones" -> aggregate_stones(worlds[v].stones)
              [] e.doc.topic = "Aggregated/Graph" -> aggregate_graph(worlds[v].stones, e.time)
              [] e.doc.topic = "Aggregated/Names" -> aggregate_descs(worlds[v].descs)

\* C11: every update_stone, update_desc and aggregation runs while its
\* thread holds World.lock, at most one thread is inside such a block at any
\* time, and every published document is the projection of World as a whole
\* number of completed updates left it (never of a stone whose last_update
\* was assigned and whose contacts were not yet merged).
C11_UpdatesAndSnapshotsExclusive ==
    /\ \A t \in Threads : pc[t] \in Holding <=> lock = t
    /\ \A t, u \in Threads : (pc[t] \in Holding /\ pc[u] \in Holding) => t = u
    /\ \A i \in DOMAIN sent : ProjectionOfWholeWorld(sent[i])

\* one thread has assigned a held stone's last_update and not yet merged the
\* contacts, while another thread stands before its aggregation and a
\* document of the World before that update is already published
C11_Witness ==
    \E t, u \in Threads :
        /\ pc[t] = "update_stone_update"
        /\ pc[u] \in {"aggregate_stones", "publish_graph"}
        /\ LET s == frame[t].stone IN
           /\ stones[s.mac_address].last_update = s.last_update
           /\ \E i \in DOMAIN s.contacts : s.contacts[i] \notin Range(stones[s.mac_address].contacts)
        /\ lock = t

\* C12: two publishes of Aggregated/Stones are never less than the update
\* interval apart in report time, also when the reports are handled by
\* concurrent on_message calls.
C12_PublishesApart ==
    \A i, j \in SentOn("Aggregated/Stones") :
        i < j => (sent[j].time - sent[i].time >= 4 \/ sent[i].time - sent[j].time >= 4)

\* C13: a thread that is about to call client.publish (Stones, Graph or
\* Names) does not hold World.lock.
C13_NoPublishUnderLock ==
    \A t \in Threads : pc[t] \in Publishing => lock # t

\* a thread has published its Stones document and is about to publish the
\* Graph document while another thread is inside a with block
C13_Witness ==
    \E t, u \in Threads :
        /\ pc[t] = "publish_graph"
        /\ \E i \in DOMAIN sent : sent[i].by = t
        /\ lock = u
        /\ pc[u] \in Holding

\* no call is under way and the lock is free
Quiescent == lock = Unlocked /\ \A t \in Threads : pc[t] \in {"waiting", "returned"}

\* C14: under fair scheduling every on_message call that began returns and
\* the lock is released after every acquisition (a call never goes back to
\* "waiting", so from some point on every begun call has returned and the
\* lock stays free), and no thread waits for the lock while holding it.
C14_NoBlocking ==
    /\ <>[]Quiescent
    /\ [](\A t \in Threads : pc[t] \in Acquiring => lock # t)

\* every thread's call has returned after all of them went through the lock,
\* and two of them published
C14_Witness ==
    /\ \A t \in Threads : pc[t] = "returned"
    /\ Len(worlds) = NumThreads + 1
    /\ \E i, j \in DOMAIN sent : sent[i].by # sent[j].by
    /\ lock = Unlocked

\* C16: once every concurrent name update has returned, the Names document
\* published last holds every address of World.descs with its final name and
\* color, and a Names document built earlier is never published after one
\* built later.
C16_LatestNamesPublished ==
    /\ ((\A t \in Threads : pc[t] = "returned") /\ SentOn("Aggregated/Names") # {}) =>
          \E i \in SentOn("Aggregated/Names") :
              /\ \A j \in SentOn("Aggregated/Names") : j <= i
              /\ sent[i].doc.payload = aggregate_descs(descs)
    /\ \A i, j \in SentOn("Aggregated/Names") : i < j => sent[i].version <= sent[j].version

ContactMacs(doc, a) == [k \in DOMAIN doc[a].contacts |-> doc[a].contacts[k].mac]

\* C19: the Stones and the Graph document one on_message call publishes list
\* the same stone addresses and, with StoneInfoIncludeContacts on, the same
\* contact addresses for every stone, whatever other threads write meanwhile.
C19_PairFromOneSnapshot ==
    \A i \in SentOn("Aggregated/Stones"), j \in SentOn("Aggregated/Graph") :
        sent[i].by = sent[j].by =>
            /\ DOMAIN sent[i].doc.payload = DOMAIN sent[j].doc.payload
            /\ include_contacts =>
                  \A a \in DOMAIN sent[i].doc.payload :
                      ContactMacs(sent[i].doc.payload, a) = ContactMacs(sent[j].doc.payload, a)

\* a call published its pair, built from a World that another thread's
\* later report of the same stone had changed after the call's own
\* update_stone: the pair shows that report's last_update and both contacts
C19_Witness ==
    \E i \in SentOn("Aggregated/Stones"), j \in SentOn("Aggregated/Graph") :
        /\ sent[i].by = sent[j].by
        /\ include_contacts
        /\ \E a \in DOMAIN sent[i].doc.payload :
              /\ sent[i].doc.payload[a].last_seen > sent[i].time
              /\ Len(sent[i].doc.payload[a].contacts) = 2
              /\ Len(sent[j].doc.payload[a].contacts) = 2
              /\ sent[j].doc.payload[a].age < 0

====
